---- MODULE Spec2Model ----
(***************************************************************************)
(* The permutation test of ChronicPain.ipynb: the data frame bta_df, the   *)
(* statistic difference_of_means_abs, the relabeling                       *)
(* one_simulated_difference, the resampling loop and the empirical         *)
(* P-value, run cell by cell from top to bottom.                           *)
(*                                                                         *)
(* A float that the notebook computes from counts is modelled by the exact *)
(* fraction it rounds, kept in lowest terms: [num |-> n, den |-> d].       *)
(***************************************************************************)
EXTENDS Integers, Sequences, FiniteSets, TLC

\* Largest number of rows of a generated data frame.
MaxRows == 3
\* Largest repetition count of the resampling loop.
MaxRepetitions == 2
\* Orders of the rows of a larger table that are tried: every MaxStride-th
\* row or nearer, starting at row MaxShift + 1 or before.
MaxStride == 2
MaxShift == 0

\* The trial's table: 16 control rows (2 with relief), 15 treatment rows
\* (9 with relief).
BtaControlRows == 16
BtaControlRelief == 2
BtaTreatmentRows == 15
BtaTreatmentRelief == 9
BtaRows == BtaControlRows + BtaTreatmentRows

\* The group keys, in the order in which groupby sorts them.
GroupKeys == <<"Control", "Treatment">>
LabelSet == {GroupKeys[j] : j \in 1..Len(GroupKeys)}

VARIABLES
    bta_df,               \* the data frame the cells work on
    loaded,               \* the table as read_csv gave it (never assigned again)
    observed_difference,  \* Out of the cell observed_difference = ...
    new_difference,       \* what the last one_simulated_difference gave back
    recheck,              \* Out of the cell difference_of_means_abs(bta_df, 'Group')
    differences,          \* the list of simulated statistics
    repetitions,
    i,                    \* the value the loop variable takes next
    empirical_P,
    error,                \* the exception that stopped the run, "" when none
    pc                    \* the cell to run next

vars == <<bta_df, loaded, observed_difference, new_difference, recheck,
          differences, repetitions, i, empirical_P, error, pc>>

-----------------------------------------------------------------------------
(* Numbers *)

Abs(x) == IF x < 0 THEN -x ELSE x

RECURSIVE GCD(_, _)
GCD(a, b) == IF b = 0 THEN a ELSE GCD(b, a % b)

\* The value n/d (d > 0) in lowest terms.
Frac(n, d) ==
    LET g == GCD(Abs(n), d)
    IN  [num |-> n \div g, den |-> d \div g]

\* No number: what a variable holds before its cell has run.
NaN == [num |-> 0, den |-> 0]

FSub(x, y) == Frac(x.num * y.den - y.num * x.den, x.den * y.den)
FAbs(x) == [num |-> Abs(x.num), den |-> x.den]
FLeq(x, y) == x.num * y.den <= y.num * x.den

\* Orders of n rows: every a-th row (a prime to n), from row b + 1, around.
AffineOrders(n, maxA, maxB) ==
    {[r \in 1..n |-> ((a * (r - 1) + b) % n) + 1]
        : a \in {x \in 1..maxA : GCD(x, n) = 1}, b \in 0..maxB}

-----------------------------------------------------------------------------
(* Data frames: the column names in order, each column's dtype, the cells *)
(* of each column by row position 1..nrows.                               *)

DataFrame(columns, dtypes, data, nrows) ==
    [columns |-> columns, dtypes |-> dtypes, data |-> data, nrows |-> nrows]

HasColumn(df, c) == \E j \in 1..Len(df.columns) : df.columns[j] = c

\* pd.read_csv of a table of (Group, Result) rows.
read_csv(group, result) ==
    DataFrame(<<"Group", "Result">>,
              [c \in {"Group", "Result"} |->
                  IF c = "Group" THEN "object" ELSE "float64"],
              [c \in {"Group", "Result"} |->
                  IF c = "Group" THEN group ELSE result],
              Len(group))

\* An assignment that appends the column name even when the frame has it.
SetColumn_always_appends(df, name, series, dtype) ==
    LET names == DOMAIN df.data \cup {name}
    IN  DataFrame(Append(df.columns, name),
                  [c \in names |-> IF c = name THEN dtype ELSE df.dtypes[c]],
                  [c \in names |-> IF c = name THEN series ELSE df.data[c]],
                  df.nrows)

\* df[name] = series: the column is overwritten in place, or appended as the
\* last column when the frame has none of that name.
SetColumn(df, name, series, dtype) ==
    LET names == DOMAIN df.data \cup {name}
    IN  DataFrame(IF HasColumn(df, name) THEN df.columns
                                         ELSE Append(df.columns, name),
                  [c \in names |-> IF c = name THEN dtype ELSE df.dtypes[c]],
                  [c \in names |-> IF c = name THEN series ELSE df.data[c]],
                  df.nrows)

\* df.drop(name, axis=1): a new frame without the column.
drop(df, name) ==
    LET names == DOMAIN df.data \ {name}
    IN  DataFrame(SelectSeq(df.columns, LAMBDA c : c # name),
                  [c \in names |-> df.dtypes[c]],
                  [c \in names |-> df.data[c]],
                  df.nrows)

\* df.sample(n=df.shape[0], replace=False).reset_index(): the rows in the
\* drawn order p, renumbered 0..n-1; the old row numbers become the first
\* column, 'index'.
sample_reset_index(df, p) ==
    LET names == DOMAIN df.data \cup {"index"}
    IN  DataFrame(<<"index">> \o df.columns,
                  [c \in names |-> IF c = "index" THEN "int64" ELSE df.dtypes[c]],
                  [c \in names |->
                      [r \in 1..df.nrows |->
                          IF c = "index" THEN p[r] - 1 ELSE df.data[c][p[r]]]],
                  df.nrows)

-----------------------------------------------------------------------------
(* What a call gives back: a value, or the exception it raised. *)

Return(v) == [raised |-> "", value |-> v]
Raise(e) == [raised |-> e, value |-> NaN]

-----------------------------------------------------------------------------
(* df.groupby(label).mean() *)

\* The keys present in the label column, sorted.
groupby_keys(df, label) ==
    SelectSeq(GroupKeys, LAMBDA k : \E r \in 1..df.nrows : df.data[label][r] = k)

\* The columns mean() aggregates: the numeric ones other than the key; a
\* column of strings is left out of the result.
numeric_columns(df, label) ==
    SelectSeq(df.columns, LAMBDA c : c # label /\ df.dtypes[c] # "object")

\* A sum that leaves out the first row of the frame.
RECURSIVE group_sum_from_second_row(_, _, _, _, _)
group_sum_from_second_row(df, label, k, c, r) ==
    IF r <= 1 THEN 0
    ELSE group_sum_from_second_row(df, label, k, c, r - 1)
         + (IF df.data[label][r] = k THEN df.data[c][r] ELSE 0)

\* A sum that counts the rows with an outcome other than 0.
RECURSIVE group_sum_counts_nonzero(_, _, _, _, _)
group_sum_counts_nonzero(df, label, k, c, r) ==
    IF r = 0 THEN 0
    ELSE group_sum_counts_nonzero(df, label, k, c, r - 1)
         + (IF df.data[label][r] = k /\ df.data[c][r] # 0 THEN 1 ELSE 0)

RECURSIVE group_sum(_, _, _, _, _)
group_sum(df, label, k, c, r) ==
    IF r = 0 THEN 0
    ELSE group_sum(df, label, k, c, r - 1)
         + (IF df.data[label][r] = k THEN df.data[c][r] ELSE 0)

RECURSIVE group_count(_, _, _, _)
group_count(df, label, k, r) ==
    IF r = 0 THEN 0
    ELSE group_count(df, label, k, r - 1)
         + (IF df.data[label][r] = k THEN 1 ELSE 0)

\* The group's sum in place of its mean: groupby(label).sum().
group_mean_as_sum(df, label, k, c) ==
    Frac(group_sum(df, label, k, c, df.nrows), 1)

\* A mean taken over all the rows of the frame instead of the group's rows.
group_mean_over_all_rows(df, label, k, c) ==
    Frac(group_sum(df, label, k, c, df.nrows), df.nrows)

group_mean(df, label, k, c) ==
    Frac(group_sum(df, label, k, c, df.nrows), group_count(df, label, k, df.nrows))

\* One row per key, one mean per aggregated column.
groupby_mean(df, label) ==
    LET keys == groupby_keys(df, label)
        cols == numeric_columns(df, label)
    IN  [g \in 1..Len(keys) |->
            [j \in 1..Len(cols) |-> group_mean(df, label, keys[g], cols[j])]]

-----------------------------------------------------------------------------
(* The statistic *)

\* An indexer that gives the last row for a position past the end.
iloc_clamped(means, row, col) ==
    IF Len(means) = 0 THEN Raise("IndexError")
    ELSE LET rw == IF row + 1 > Len(means) THEN Len(means) ELSE row + 1
         IN  IF col + 1 > Len(means[rw]) THEN Raise("IndexError")
             ELSE Return(means[rw][col + 1])

\* .iloc(0)[row][col] of the table of group means, positions from 0.
iloc(means, row, col) ==
    IF row + 1 > Len(means) THEN Raise("IndexError")
    ELSE IF col + 1 > Len(means[row + 1]) THEN Raise("IndexError")
    ELSE Return(means[row + 1][col + 1])

\* The statistic with a missing group's mean taken as that of the first.
difference_of_means_abs_or_zero(df, group_label) ==
    IF ~HasColumn(df, group_label) THEN Raise("KeyError")
    ELSE LET one_value == iloc(groupby_mean(df, group_label), 0, 0)
             another_value == iloc(groupby_mean(df, group_label), 1, 0)
         IN  IF one_value.raised # "" THEN one_value
             ELSE IF another_value.raised # "" THEN Return(Frac(0, 1))
             ELSE Return(FAbs(FSub(one_value.value, another_value.value)))

\* The statistic without abs().
difference_of_means_signed(df, group_label) ==
    IF ~HasColumn(df, group_label) THEN Raise("KeyError")
    ELSE LET one_value == iloc(groupby_mean(df, group_label), 0, 0)
             another_value == iloc(groupby_mean(df, group_label), 1, 0)
         IN  IF one_value.raised # "" THEN one_value
             ELSE IF another_value.raised # "" THEN another_value
             ELSE Return(FSub(one_value.value, another_value.value))

difference_of_means_abs(df, group_label) ==
    IF ~HasColumn(df, group_label) THEN Raise("KeyError")
    ELSE LET one_value == iloc(groupby_mean(df, group_label), 0, 0)
             another_value == iloc(groupby_mean(df, group_label), 1, 0)
         IN  IF one_value.raised # "" THEN one_value
             ELSE IF another_value.raised # "" THEN another_value
             ELSE Return(FAbs(FSub(one_value.value, another_value.value)))

-----------------------------------------------------------------------------
(* One relabeling *)

\* The draws of df.sample(n=df.shape[0], replace=True): a row may be drawn
\* more than once.
sample_orders_with_replacement(n) ==
    IF n <= MaxRows
    THEN [1..n -> 1..n]
    ELSE AffineOrders(n, MaxStride, MaxShift)

\* The orders df.sample(n=df.shape[0], replace=False) can draw the rows in:
\* every permutation of the rows. For a table of more than MaxRows rows
\* only the orders of AffineOrders are drawn.
sample_orders(n) ==
    IF n <= MaxRows
    THEN {p \in [1..n -> 1..n] : \A a, b \in 1..n : a # b => p[a] # p[b]}
    ELSE AffineOrders(n, MaxStride, MaxShift)

\* A relabeling that attaches the shuffled rows, outcomes as well as labels.
one_simulated_difference_shuffles_rows(df, group_label, p) ==
    LET temp_df == sample_reset_index(df, p)
        df0 == SetColumn(df, "Result", temp_df.data["Result"],
                         temp_df.dtypes["Result"])
        df1 == SetColumn(df0, "Shuffled Label", temp_df.data[group_label],
                         temp_df.dtypes[group_label])
        df2 == drop(df1, group_label)
    IN  [df |-> df1, result |-> difference_of_means_abs(df2, "Shuffled Label")]

\* A relabeling that shuffles the labels the last call left in the frame.
one_simulated_difference_reshuffle(df, group_label, p) ==
    LET temp_df == sample_reset_index(df, p)
        from == IF HasColumn(df, "Shuffled Label") THEN "Shuffled Label"
                                                   ELSE group_label
        df1 == SetColumn(df, "Shuffled Label", temp_df.data[from],
                         temp_df.dtypes[from])
        df2 == drop(df1, group_label)
    IN  [df |-> df1, result |-> difference_of_means_abs(df2, "Shuffled Label")]

\* A relabeling whose statistic is taken on the loaded labels.
one_simulated_difference_original_label(df, group_label, p) ==
    LET temp_df == sample_reset_index(df, p)
        df1 == SetColumn(df, "Shuffled Label", temp_df.data[group_label],
                         temp_df.dtypes[group_label])
    IN  [df |-> df1, result |-> difference_of_means_abs(df1, group_label)]

\* A relabeling whose statistic is taken on the shuffled copy, whose first
\* numeric column is 'index'.
one_simulated_difference_on_temp_df(df, group_label, p) ==
    LET temp_df == sample_reset_index(df, p)
        df1 == SetColumn(df, "Shuffled Label", temp_df.data[group_label],
                         temp_df.dtypes[group_label])
    IN  [df |-> df1, result |-> difference_of_means_abs(temp_df, group_label)]

\* A relabeling that assigns the shuffled labels to the group-label column
\* itself.
one_simulated_difference_in_place(df, group_label, p) ==
    LET temp_df == sample_reset_index(df, p)
        df1 == SetColumn(df, group_label, temp_df.data[group_label],
                         temp_df.dtypes[group_label])
    IN  [df |-> df1, result |-> difference_of_means_abs(df1, group_label)]

\* A relabeling that also attaches the drawn row numbers to the frame.
one_simulated_difference_with_index(df, group_label, p) ==
    LET temp_df == sample_reset_index(df, p)
        df0 == SetColumn(df, "index", temp_df.data["index"],
                         temp_df.dtypes["index"])
        df1 == SetColumn(df0, "Shuffled Label", temp_df.data[group_label],
                         temp_df.dtypes[group_label])
        df2 == drop(drop(df1, group_label), "index")
    IN  [df |-> df1, result |-> difference_of_means_abs(df2, "Shuffled Label")]

\* The caller's frame after the call (df['Shuffled Label'] is assigned in
\* place; the drop makes a new frame, local to the call) and what the call
\* gives back.
one_simulated_difference(df, group_label, p) ==
    LET temp_df == sample_reset_index(df, p)
        df1 == SetColumn(df, "Shuffled Label", temp_df.data[group_label],
                         temp_df.dtypes[group_label])
        df2 == drop(df1, group_label)
    IN  [df |-> df1, result |-> difference_of_means_abs(df2, "Shuffled Label")]

-----------------------------------------------------------------------------
(* The list of simulated statistics *)

\* differences = [new_difference]: the list is replaced, not extended.
list_assign(l, x) == <<x>>

\* differences.append(new_difference)
list_append(l, x) == Append(l, x)

-----------------------------------------------------------------------------
(* The P-value *)

\* np.count_nonzero(differences < observed_difference)
count_nonzero_lt(diffs, observed) ==
    Cardinality({j \in 1..Len(diffs) : ~FLeq(observed, diffs[j])})

\* np.count_nonzero(differences <= observed_difference)
count_nonzero_leq(diffs, observed) ==
    Cardinality({j \in 1..Len(diffs) : FLeq(diffs[j], observed)})

\* (count + 1) / repetitions
empirical_P_plus_one(diffs, observed, reps) ==
    Frac(count_nonzero_leq(diffs, observed) + 1, reps)

empirical_P_of(diffs, observed, reps) ==
    Frac(count_nonzero_leq(diffs, observed), reps)

-----------------------------------------------------------------------------
(* The tables the notebook is run on *)

Outcomes == {0, 1}

\* Every table of 1..MaxRows rows of (Group, Result).
SmallTables ==
    UNION {{read_csv(g, r) : g \in [1..n -> LabelSet], r \in [1..n -> Outcomes]}
           : n \in 1..MaxRows}

\* Result values of a malformed table.
WideOutcomes == {0, 1, 2}

\* Every table of 1..MaxRows rows with a Result that is neither 0 nor 1.
NonBinaryTables ==
    UNION {{read_csv(g, r) : g \in [1..n -> LabelSet],
                             r \in {x \in [1..n -> WideOutcomes] :
                                       \E j \in 1..n : x[j] \notin Outcomes}}
           : n \in 1..MaxRows}

\* The rows of ab_data/bta.csv, control rows first, relief first.
BtaGroup ==
    [r \in 1..BtaRows |-> IF r <= BtaControlRows THEN "Control" ELSE "Treatment"]
BtaResult ==
    [r \in 1..BtaRows |->
        IF r <= BtaControlRelief THEN 1
        ELSE IF r <= BtaControlRows THEN 0
        ELSE IF r <= BtaControlRows + BtaTreatmentRelief THEN 1
        ELSE 0]

\* The same rows in other orders: every stride-th row, from every start.
BtaOrders == AffineOrders(BtaRows, MaxStride, BtaRows - 1)

BtaTables ==
    {read_csv([r \in 1..BtaRows |-> BtaGroup[o[r]]],
              [r \in 1..BtaRows |-> BtaResult[o[r]]]) : o \in BtaOrders}

-----------------------------------------------------------------------------
(* The run, cell by cell *)

Init ==
    /\ bta_df \in SmallTables \cup BtaTables
    /\ loaded = bta_df
    /\ observed_difference = NaN
    /\ new_difference = NaN
    /\ recheck = NaN
    /\ differences = <<>>
    /\ repetitions = 0
    /\ i = 0
    /\ empirical_P = NaN
    /\ error = ""
    /\ pc = "observed_difference"

\* observed_difference = difference_of_means_abs(bta_df, 'Group')
ObservedDifference ==
    /\ pc = "observed_difference"
    /\ LET r == difference_of_means_abs(bta_df, "Group")
       IN  IF r.raised # ""
           THEN /\ error' = r.raised
                /\ pc' = "error"
                /\ UNCHANGED observed_difference
           ELSE /\ observed_difference' = r.value
                /\ pc' = "one_simulated_difference"
                /\ UNCHANGED error
    /\ UNCHANGED <<bta_df, loaded, new_difference, recheck, differences,
                   repetitions, i, empirical_P>>

\* one_simulated_difference(bta_df, 'Group'), run any number of times
OneSimulatedDifference ==
    /\ pc = "one_simulated_difference"
    /\ \E p \in sample_orders(bta_df.nrows) :
          LET c == one_simulated_difference(bta_df, "Group", p)
          IN  /\ bta_df' = c.df
              /\ IF c.result.raised # ""
                 THEN /\ error' = c.result.raised
                      /\ pc' = "error"
                      /\ UNCHANGED new_difference
                 ELSE /\ new_difference' = c.result.value
                      /\ UNCHANGED <<error, pc>>
    /\ UNCHANGED <<loaded, observed_difference, recheck, differences,
                   repetitions, i, empirical_P>>

\* difference_of_means_abs(bta_df, 'Group'), after the simulations
Recheck ==
    /\ pc = "one_simulated_difference"
    /\ LET r == difference_of_means_abs(bta_df, "Group")
       IN  IF r.raised # ""
           THEN /\ error' = r.raised
                /\ pc' = "error"
                /\ UNCHANGED recheck
           ELSE /\ recheck' = r.value
                /\ pc' = "differences"
                /\ UNCHANGED error
    /\ UNCHANGED <<bta_df, loaded, observed_difference, new_difference,
                   differences, repetitions, i, empirical_P>>

\* differences = []; repetitions = ...; the for statement is entered
StartLoop ==
    /\ pc = "differences"
    /\ differences' = <<>>
    /\ \E R \in 1..MaxRepetitions : repetitions' = R
    /\ i' = 0
    /\ pc' = "for"
    /\ UNCHANGED <<bta_df, loaded, observed_difference, new_difference,
                   recheck, empirical_P, error>>

\* One iteration of  for i in np.arange(repetitions):  and the test that
\* ends the loop after it.
LoopIteration ==
    /\ pc = "for"
    /\ i < repetitions
    /\ \E p \in sample_orders(bta_df.nrows) :
          LET c == one_simulated_difference(bta_df, "Group", p)
          IN  /\ bta_df' = c.df
              /\ IF c.result.raised # ""
                 THEN /\ error' = c.result.raised
                      /\ pc' = "error"
                      /\ UNCHANGED <<new_difference, differences, i>>
                 ELSE /\ new_difference' = c.result.value
                      /\ differences' = list_append(differences, c.result.value)
                      /\ i' = i + 1
                      /\ pc' = IF i + 1 < repetitions THEN "for" ELSE "empirical_P"
                      /\ UNCHANGED error
    /\ UNCHANGED <<loaded, observed_difference, recheck, repetitions,
                   empirical_P>>

\* empirical_P = np.count_nonzero(differences <= observed_difference) / repetitions
EmpiricalP ==
    /\ pc = "empirical_P"
    /\ empirical_P' = empirical_P_of(differences, observed_difference, repetitions)
    /\ pc' = "done"
    /\ UNCHANGED <<bta_df, loaded, observed_difference, new_difference,
                   recheck, differences, repetitions, i, error>>

\* The run on a table with an outcome other than 0 and 1.
InitNonBinary ==
    /\ bta_df \in NonBinaryTables
    /\ loaded = bta_df
    /\ observed_difference = NaN
    /\ new_difference = NaN
    /\ recheck = NaN
    /\ differences = <<>>
    /\ repetitions = 0
    /\ i = 0
    /\ empirical_P = NaN
    /\ error = ""
    /\ pc = "observed_difference"

Next ==
    \/ ObservedDifference
    \/ OneSimulatedDifference
    \/ Recheck
    \/ StartLoop
    \/ LoopIteration
    \/ EmpiricalP

Spec == Init /\ [][Next]_vars
SpecNonBinary == InitNonBinary /\ [][Next]_vars

-----------------------------------------------------------------------------
(* Properties *)

\* The rows of df whose column c holds v.
RowsWith(df, c, v) == {r \in 1..df.nrows : df.data[c][r] = v}

\* The number of rows of df labelled k in column c.
GroupSize(df, c, k) == Cardinality(RowsWith(df, c, k))

\* The sum of the Result column over the rows labelled k in column c,
\* counted outcome by outcome.
RECURSIVE SumOfSet(_)
SumOfSet(S) ==
    IF S = {} THEN 0
    ELSE LET x == CHOOSE y \in S : TRUE IN x[2] + SumOfSet(S \ {x})
GroupTotal(df, c, k) ==
    SumOfSet({<<r, df.data["Result"][r]>> : r \in RowsWith(df, c, k)})

BothGroups(df, c) == \A k \in LabelSet : RowsWith(df, c, k) # {}
Shuffled == HasColumn(bta_df, "Shuffled Label")
ObservedKnown == observed_difference # NaN

\* C1: every relabeling gives each label to as many rows as carry it in the
\* table as loaded, in every state of the run; when both groups of the table
\* are non-empty, so are both relabeled groups.
C1_GroupSizesPreserved ==
    Shuffled =>
        /\ \A k \in LabelSet :
              GroupSize(bta_df, "Shuffled Label", k) = GroupSize(loaded, "Group", k)
        /\ BothGroups(loaded, "Group") => BothGroups(bta_df, "Shuffled Label")

\* A relabeling that is not the original labeling, inside the loop.
C1_Witness ==
    /\ pc = "for"
    /\ i >= 1
    /\ Shuffled
    /\ bta_df.data["Shuffled Label"] # bta_df.data["Group"]
    /\ GroupSize(loaded, "Group", "Control") = 1
    /\ GroupSize(bta_df, "Shuffled Label", "Control") = 1
    /\ GroupSize(bta_df, "Shuffled Label", "Treatment") = loaded.nrows - 1

\* The number of simulated statistics equal to or larger than the observed one.
CountAtLeastObserved ==
    Cardinality({j \in 1..Len(differences) :
                    FLeq(observed_difference, differences[j])})

\* C2: the empirical P-value is the number of simulated statistics equal to
\* or larger than the observed statistic, divided by the repetition count.
C2_PValueCountsAtLeastObserved ==
    pc = "done" => empirical_P = Frac(CountAtLeastObserved, repetitions)

\* C3: the empirical P-value lies in [0, 1].
C3_PValueInUnitInterval ==
    pc = "done" =>
        /\ empirical_P.den > 0
        /\ 0 <= empirical_P.num
        /\ empirical_P.num <= empirical_P.den

\* A P-value strictly between 0 and 1.
C3_Witness ==
    /\ pc = "done"
    /\ repetitions = MaxRepetitions
    /\ 0 < empirical_P.num
    /\ empirical_P.num < empirical_P.den

\* The frame with the two labels exchanged on every row of column c.
SwapLabels(df, c) ==
    SetColumn(df, c,
              [r \in 1..df.nrows |->
                  IF df.data[c][r] = GroupKeys[1] THEN GroupKeys[2] ELSE GroupKeys[1]],
              df.dtypes[c])

\* C4: exchanging the two group labels on all rows leaves the statistic
\* unchanged, for the observed statistic and for a simulated one.
C4_StatisticSymmetric ==
    /\ ObservedKnown =>
          difference_of_means_abs(SwapLabels(loaded, "Group"), "Group")
              = Return(observed_difference)
    /\ (Shuffled /\ pc # "error") =>
          difference_of_means_abs(
              SwapLabels(drop(bta_df, "Group"), "Shuffled Label"), "Shuffled Label")
              = Return(new_difference)

\* The group read first has the larger mean, so the difference changes sign
\* when the labels are exchanged.
C4_Witness ==
    /\ ObservedKnown
    /\ observed_difference.num > 0
    /\ GroupTotal(loaded, "Group", "Control") * GroupSize(loaded, "Group", "Treatment")
         > GroupTotal(loaded, "Group", "Treatment") * GroupSize(loaded, "Group", "Control")
    /\ Shuffled
    /\ new_difference.num > 0

\* x is the absolute difference of the means of the two groups of column c.
IsAbsDifferenceOfMeans(x, df, c) ==
    LET n1 == GroupSize(df, c, "Control")
        n2 == GroupSize(df, c, "Treatment")
        s1 == GroupTotal(df, c, "Control")
        s2 == GroupTotal(df, c, "Treatment")
    IN  /\ x.den > 0
        /\ x.num >= 0
        /\ x.num * (n1 * n2) = x.den * Abs(s1 * n2 - s2 * n1)

\* C5: for two non-empty groups the statistic is non-negative and equals
\* |sum1/count1 - sum2/count2|.
C5_AbsoluteDifferenceOfMeans ==
    /\ ObservedKnown => IsAbsDifferenceOfMeans(observed_difference, loaded, "Group")
    /\ (Shuffled /\ pc # "error") =>
          IsAbsDifferenceOfMeans(new_difference, bta_df, "Shuffled Label")

\* Groups of different sizes with different means, observed and simulated.
C5_Witness ==
    /\ ObservedKnown
    /\ loaded.nrows <= MaxRows
    /\ GroupSize(loaded, "Group", "Control") = 2
    /\ GroupTotal(loaded, "Group", "Control") = 1
    /\ GroupTotal(loaded, "Group", "Treatment") = 1
    /\ observed_difference = [num |-> 1, den |-> 2]
    /\ Shuffled
    /\ new_difference = [num |-> 1, den |-> 2]
    /\ bta_df.data["Shuffled Label"] # bta_df.data["Group"]
\* df holds the rows of the trial: 16 control rows, 2 with relief, and
\* 15 treatment rows, 9 with relief.
IsBta(df) ==
    /\ df.nrows = BtaRows
    /\ GroupSize(df, "Group", "Control") = BtaControlRows
    /\ GroupTotal(df, "Group", "Control") = BtaControlRelief
    /\ GroupSize(df, "Group", "Treatment") = BtaTreatmentRows
    /\ GroupTotal(df, "Group", "Treatment") = BtaTreatmentRelief

\* C6: on the trial's 31 rows the observed statistic is |9/15 - 2/16| = 19/40,
\* in whatever order the rows are.
C6_BtaObservedStatistic ==
    (IsBta(loaded) /\ pc # "observed_difference") =>
        /\ error = ""
        /\ observed_difference = [num |-> 19, den |-> 40]
        /\ observed_difference.num * (BtaTreatmentRows * BtaControlRows)
             = observed_difference.den
                 * Abs(BtaTreatmentRelief * BtaControlRows
                         - BtaControlRelief * BtaTreatmentRows)

\* The statistic has been computed on the trial's rows in an order that
\* starts with a treatment row without relief.
C6_Witness ==
    /\ IsBta(loaded)
    /\ ObservedKnown
    /\ loaded.data["Group"][1] = "Treatment"
    /\ loaded.data["Result"][1] = 0
    /\ loaded.data["Group"][2] = "Control"

\* C7 as claimed: the caller's data frame is the table as loaded, in every
\* state of the run.
C7_DatasetReadOnly == bta_df = loaded

\* C7 as amended: the run changes the caller's data frame only by the column
\* 'Shuffled Label' that one_simulated_difference adds or overwrites: the
\* row count and the loaded columns (names, dtypes, every cell) stay as
\* loaded, and no other column appears.
C7_OnlyShuffledLabelAdded ==
    /\ bta_df.nrows = loaded.nrows
    /\ \A c \in DOMAIN loaded.data :
          /\ c \in DOMAIN bta_df.data
          /\ bta_df.data[c] = loaded.data[c]
          /\ bta_df.dtypes[c] = loaded.dtypes[c]
    /\ DOMAIN bta_df.data \subseteq DOMAIN loaded.data \cup {"Shuffled Label"}
    /\ \/ bta_df.columns = loaded.columns
       \/ bta_df.columns = Append(loaded.columns, "Shuffled Label")

\* The run is over and the frame carries shuffled labels that differ from
\* the loaded ones.
C7_Witness ==
    /\ pc = "done"
    /\ Shuffled
    /\ bta_df # loaded
    /\ bta_df.data["Shuffled Label"] # loaded.data["Group"]
    /\ Len(differences) = MaxRepetitions

\* C8: once the observed statistic is known, difference_of_means_abs on the
\* caller's frame with the column 'Group' gives that same value after any
\* number of calls of one_simulated_difference (19/40 on the trial's rows).
C8_ObservedStatisticStable ==
    ObservedKnown =>
        /\ difference_of_means_abs(bta_df, "Group") = Return(observed_difference)
        /\ recheck # NaN => recheck = observed_difference
        /\ (recheck # NaN /\ IsBta(loaded)) => recheck = [num |-> 19, den |-> 40]

\* The statistic was computed again on the trial's rows after a relabeling
\* that gave another value.
C8_Witness ==
    /\ IsBta(loaded)
    /\ recheck = [num |-> 19, den |-> 40]
    /\ Shuffled
    /\ bta_df.data["Shuffled Label"] # bta_df.data["Group"]
    /\ new_difference # observed_difference

\* C9, the states: the list is empty until the loop starts, holds i values
\* after i iterations, and holds exactly repetitions values once the loop
\* has ended.
C9_ListLength ==
    /\ pc \in {"observed_difference", "one_simulated_difference",
               "differences"} => differences = <<>>
    /\ pc = "for" => (Len(differences) = i /\ i < repetitions)
    /\ pc \in {"empirical_P", "done"} =>
          (Len(differences) = repetitions /\ i = repetitions)
    /\ empirical_P # NaN => pc = "done"

\* C9, the steps: a step that changes the list appends one value to it and
\* keeps every earlier entry; the P-value is assigned only when the list
\* holds repetitions values.
C9_ListStep ==
    /\ differences' # differences =>
          /\ Len(differences') = Len(differences) + 1
          /\ \A j \in 1..Len(differences) : differences'[j] = differences[j]
          /\ differences'[Len(differences')] = new_difference'
    /\ empirical_P' # empirical_P => Len(differences) = repetitions

\* C9: the null distribution starts empty, grows by exactly one value per
\* iteration without change to earlier entries, the loop ends after exactly
\* repetitions iterations, and the P-value is computed from exactly
\* repetitions values.
C9_NullDistributionAppendOnly == []C9_ListLength /\ [][C9_ListStep]_vars

\* The loop has ended with two different values in the list.
C9_Witness ==
    /\ pc = "done"
    /\ repetitions = MaxRepetitions
    /\ Len(differences) = MaxRepetitions
    /\ differences[1] # differences[Len(differences)]

\* C10: when every row carries the same label, difference_of_means_abs
\* raises and no statistic is assigned.
C10_EmptyGroupRaises ==
    (~BothGroups(loaded, "Group") /\ pc # "observed_difference") =>
        /\ pc = "error"
        /\ error = "IndexError"
        /\ observed_difference = NaN
        /\ difference_of_means_abs(loaded, "Group") = Raise("IndexError")

\* The run stopped on a table of several rows that all carry one label.
C10_Witness ==
    /\ pc = "error"
    /\ error = "IndexError"
    /\ loaded.nrows = MaxRows
    /\ GroupSize(loaded, "Group", "Treatment") = MaxRows
\* df has a Result other than 0 and 1.
HasNonBinaryOutcome(df) ==
    \E r \in 1..df.nrows : df.data["Result"][r] \notin Outcomes

\* C11 as claimed: a table with a non-binary outcome is rejected: the run
\* stops with an error before any statistic or P-value is produced.
C11_NonBinaryRejected ==
    (HasNonBinaryOutcome(loaded) /\ pc # "observed_difference") =>
        /\ pc = "error"
        /\ observed_difference = NaN
        /\ differences = <<>>
        /\ empirical_P = NaN

\* C11 as amended: a non-binary outcome is not rejected. On a table with a
\* non-binary outcome and two non-empty groups no cell raises, the observed
\* and the simulated statistics are the absolute difference of the group
\* means of the Result values as they are, and the run ends with a P-value;
\* the run stops with an error only when a group is empty.
C11_NonBinaryAccepted ==
    HasNonBinaryOutcome(loaded) =>
        /\ pc = "error" => ~BothGroups(loaded, "Group")
        /\ BothGroups(loaded, "Group") =>
              /\ error = ""
              /\ pc # "observed_difference" =>
                    IsAbsDifferenceOfMeans(observed_difference, loaded, "Group")
              /\ Shuffled =>
                    IsAbsDifferenceOfMeans(new_difference, bta_df, "Shuffled Label")
              /\ pc = "done" => (empirical_P # NaN /\ empirical_P.den > 0)

\* A run on outcomes 2 and 0 has ended with a P-value and an observed
\* statistic of 2.
C11_Witness ==
    /\ pc = "done"
    /\ HasNonBinaryOutcome(loaded)
    /\ observed_difference = [num |-> 2, den |-> 1]
    /\ empirical_P # NaN
    /\ Len(differences) = MaxRepetitions

\* C12: on a table with an empty group the run stops at the observed
\* statistic: no simulated statistic has been produced, the list is empty,
\* the data frame is as loaded and no P-value exists, in every state.
C12_NoPartialResults ==
    ~BothGroups(loaded, "Group") =>
        /\ pc \in {"observed_difference", "error"}
        /\ pc = "error" => error = "IndexError"
        /\ observed_difference = NaN
        /\ new_difference = NaN
        /\ recheck = NaN
        /\ differences = <<>>
        /\ bta_df = loaded
        /\ empirical_P = NaN

\* The run has stopped on a table whose rows are all control rows.
C12_Witness ==
    /\ pc = "error"
    /\ loaded.nrows = MaxRows
    /\ GroupSize(loaded, "Group", "Control") = MaxRows
    /\ GroupTotal(loaded, "Group", "Control") >= 1
    /\ differences = <<>>
    /\ empirical_P = NaN
\* The sum of the Result column of df over all its rows.
TotalOfResults(df) ==
    SumOfSet({<<r, df.data["Result"][r]>> : r \in 1..df.nrows})

\* C13: a relabeling leaves the outcome of every row in its row, gives each
\* label to as many rows as the loaded labels do, and so the successes of
\* the two relabeled groups add up to the successes of the loaded table.
C13_LabelsPermutedOutcomesFixed ==
    Shuffled =>
        /\ bta_df.data["Result"] = loaded.data["Result"]
        /\ \A k \in LabelSet :
              Cardinality(RowsWith(bta_df, "Shuffled Label", k))
                  = Cardinality(RowsWith(loaded, "Group", k))
        /\ \A r \in 1..bta_df.nrows : bta_df.data["Shuffled Label"][r] \in LabelSet
        /\ GroupTotal(bta_df, "Shuffled Label", "Control")
             + GroupTotal(bta_df, "Shuffled Label", "Treatment")
             = TotalOfResults(loaded)

\* A relabeling has moved a success from one group to the other.
C13_Witness ==
    /\ Shuffled
    /\ pc # "error"
    /\ TotalOfResults(loaded) >= 1
    /\ GroupTotal(bta_df, "Shuffled Label", "Control")
         # GroupTotal(loaded, "Group", "Control")
    /\ new_difference # observed_difference

\* The numbers of simulated statistics equal to, and larger than, the
\* observed one.
CountEqualObserved ==
    Cardinality({j \in 1..Len(differences) : differences[j] = observed_difference})
CountAboveObserved ==
    Cardinality({j \in 1..Len(differences) :
                    ~FLeq(differences[j], observed_difference)})

\* C14 as claimed: the P-value of the code is 1 minus the fraction of
\* simulated statistics equal to or larger than the observed one.
C14_ComplementOfAtLeast ==
    pc = "done" =>
        empirical_P = Frac(repetitions - CountAtLeastObserved, repetitions)

\* C14 as amended: the P-value of the code is 1 minus the fraction of
\* simulated statistics strictly larger than the observed one; the two
\* fractions (<= and >=) add up to 1 plus the fraction of simulated
\* statistics equal to the observed one, so to 1 only when there is no tie.
C14_ComplementOfStrictlyLarger ==
    pc = "done" =>
        /\ empirical_P.num * repetitions
             = empirical_P.den * (repetitions - CountAboveObserved)
        /\ empirical_P.num * repetitions + empirical_P.den * CountAtLeastObserved
             = empirical_P.den * (repetitions + CountEqualObserved)
        /\ CountEqualObserved = 0 => C14_ComplementOfAtLeast

\* The run has ended with one simulated statistic equal to the observed one
\* and another one larger.
C14_Witness ==
    /\ pc = "done"
    /\ CountEqualObserved >= 1
    /\ CountAboveObserved >= 1

\* What a call of one_simulated_difference on df can give back.
PossibleResults(df) ==
    {one_simulated_difference(df, "Group", p).result : p \in sample_orders(df.nrows)}

\* C15: what a call of one_simulated_difference gives back for a drawn order
\* is the same on the frame as the earlier calls left it as on the table as
\* loaded; so the values an iteration can append are the same in every
\* iteration.
C15_IterationsIndependent ==
    pc \in {"one_simulated_difference", "for"} =>
        /\ \A p \in sample_orders(bta_df.nrows) :
              one_simulated_difference(bta_df, "Group", p).result
                  = one_simulated_difference(loaded, "Group", p).result
        /\ PossibleResults(bta_df) = PossibleResults(loaded)

\* An iteration has left shuffled labels that differ from the loaded ones,
\* and the next one can append either of two values.
C15_Witness ==
    /\ pc = "for"
    /\ i >= 1
    /\ bta_df.data["Shuffled Label"] # bta_df.data["Group"]
    /\ Cardinality(PossibleResults(bta_df)) >= 2
\* C18: one_simulated_difference changes the caller's frame only by the
\* column 'Shuffled Label': before the first call the frame is as loaded;
\* after any number of calls it has the loaded row count, the loaded Group
\* and Result columns row by row, and exactly one column more, the last one.
C18_OneColumnAdded ==
    /\ ~Shuffled => bta_df = loaded
    /\ Shuffled =>
          /\ bta_df.nrows = loaded.nrows
          /\ Len(bta_df.columns) = Len(loaded.columns) + 1
          /\ bta_df.columns = loaded.columns \o <<"Shuffled Label">>
          /\ DOMAIN bta_df.data = {"Group", "Result", "Shuffled Label"}
          /\ \A r \in 1..loaded.nrows :
                /\ bta_df.data["Group"][r] = loaded.data["Group"][r]
                /\ bta_df.data["Result"][r] = loaded.data["Result"][r]
          /\ drop(bta_df, "Shuffled Label") = loaded

\* Two calls have been made in the loop, the second with another outcome
\* than the first.
C18_Witness ==
    /\ pc = "done"
    /\ Len(differences) >= 2
    /\ differences[1] # differences[2]
    /\ Len(bta_df.columns) = 3

\* x is |a/k - (S-a)/(n-k)|.
IsStatisticOf(x, a, k, S, n) ==
    /\ x.den > 0
    /\ x.num >= 0
    /\ x.num * (k * (n - k)) = x.den * Abs(a * (n - k) - (S - a) * k)

\* The numbers of successes that can land in a group of k of n rows, S of
\* which are successes.
SuccessRange(k, S, n) ==
    {a \in 0..n : /\ a <= k
                  /\ a <= S
                  /\ a >= 0
                  /\ a >= S - (n - k)}

\* C19: with S successes and a split k / (N-k), a simulated statistic is
\* |a/k - (S-a)/(N-k)| for the number a of successes in the relabeled
\* control group, max(0, S-(N-k)) <= a <= min(k, S), and the list holds no
\* other value.
C19_StatisticOfSuccessCount ==
    Shuffled =>
        LET n == loaded.nrows
            k == GroupSize(loaded, "Group", "Control")
            S == TotalOfResults(loaded)
            a == GroupTotal(bta_df, "Shuffled Label", "Control")
        IN  /\ a \in SuccessRange(k, S, n)
            /\ pc # "error" => IsStatisticOf(new_difference, a, k, S, n)
            /\ \A j \in 1..Len(differences) :
                  \E b \in SuccessRange(k, S, n) :
                      IsStatisticOf(differences[j], b, k, S, n)

\* The list holds the statistics of two different success counts.
C19_Witness ==
    /\ pc = "done"
    /\ Len(differences) >= 2
    /\ differences[1] # differences[2]
    /\ GroupTotal(bta_df, "Shuffled Label", "Control")
         # GroupTotal(loaded, "Group", "Control")
    /\ Cardinality(SuccessRange(GroupSize(loaded, "Group", "Control"),
                                TotalOfResults(loaded), loaded.nrows)) >= 2

\* The order that leaves every row in its place.
IdentityOrder(n) == [r \in 1..n |-> r]

\* C20: the shuffle that gives every row its own label makes
\* one_simulated_difference give back the observed statistic, and that
\* shuffle can be drawn: the observed statistic is one of the values a call
\* can append.
C20_IdentityGivesObserved ==
    /\ ObservedKnown =>
          /\ IdentityOrder(bta_df.nrows) \in sample_orders(bta_df.nrows)
          /\ one_simulated_difference(bta_df, "Group",
                                      IdentityOrder(bta_df.nrows)).result
               = Return(observed_difference)
          /\ \E p \in sample_orders(bta_df.nrows) :
                one_simulated_difference(bta_df, "Group", p).result
                    = Return(observed_difference)
    /\ (Shuffled /\ pc # "error"
          /\ bta_df.data["Shuffled Label"] = bta_df.data["Group"]) =>
          new_difference = observed_difference

\* The loop has appended the observed statistic after another value, by a
\* shuffle that gave every row its own label.
C20_Witness ==
    /\ pc = "done"
    /\ Len(differences) >= 2
    /\ bta_df.data["Shuffled Label"] = bta_df.data["Group"]
    /\ differences[Len(differences)] = observed_difference
    /\ differences[1] # observed_difference
\* x is a number of the closed interval [0, 1].
InUnitInterval(x) ==
    /\ x.den > 0
    /\ 0 <= x.num
    /\ x.num <= x.den

\* C21: for binary outcomes and two non-empty groups, the observed statistic
\* and every simulated statistic, returned or in the list, lie in [0, 1] in
\* every state of the run.
C21_StatisticsInUnitInterval ==
    (BothGroups(loaded, "Group") /\ ~HasNonBinaryOutcome(loaded)) =>
        /\ pc # "observed_difference" =>
              (ObservedKnown /\ InUnitInterval(observed_difference))
        /\ Shuffled => InUnitInterval(new_difference)
        /\ recheck # NaN => InUnitInterval(recheck)
        /\ \A j \in 1..Len(differences) : InUnitInterval(differences[j])

\* The observed statistic is 1, from a group of two successes and a group
\* without success, and the list holds a smaller value and the value 1.
C21_Witness ==
    /\ pc = "done"
    /\ GroupSize(loaded, "Group", "Control") = 2
    /\ GroupTotal(loaded, "Group", "Control") = 2
    /\ GroupTotal(loaded, "Group", "Treatment") = 0
    /\ observed_difference = [num |-> 1, den |-> 1]
    /\ Len(differences) >= 2
    /\ differences[1] = [num |-> 1, den |-> 2]
    /\ differences[2] = [num |-> 1, den |-> 1]

====
